---- MODULE Spec2Model ----
(***************************************************************************)
(* Model of ObjectSensor.ino: an HC-SR04 ultrasonic distance sensor read   *)
(* in a polling loop, shown on a 16x1 LCD, echoed on the serial line and   *)
(* signalled on an LED when the object is closer than `limit` cm.          *)
(*                                                                         *)
(* Each statement of setup(), loop() and of the functions they call is one *)
(* action; pc names the statement the single thread executes next.         *)
(* Floating-point values are carried as exact fractions [num, den] in      *)
(* lowest terms, so the arithmetic of the sketch is followed step by step  *)
(* but binary rounding of float/double is not represented.                 *)
(***************************************************************************)
EXTENDS Integers, Sequences, FiniteSets, TLC

VARIABLES pc,          \* statement the thread executes next
          pinModes,    \* direction of each digital line used by the sketch
          pinLevel,    \* level last written to each line with digitalWrite
          lcdGrid,     \* <<columns, rows>> given to lcd.begin
          lcdScreen,   \* texts printed on the display since the last clear
          lcdClears,   \* lcd.clear() calls since the last lcd.print
          lcdPrints,   \* whether a text has ever been printed
          serialBaud,  \* rate given to Serial.begin, 0 before it
          serialLine,  \* last line sent with Serial.println
          echoTime,    \* local echoTime of getDistance (microseconds)
          distance,    \* local distance of loop (centimetres, a fraction)
          holds,       \* milliseconds waited by each delay of the current blink
          log,         \* operations performed since loop() was entered
          pT,          \* argument handed to the conversion functions
          pCM,         \* result of calculateDistanceCM(pT), or NoValue
          pFoot        \* result of calculateDistanceFoot(pT), or NoValue

vars == <<pc, pinModes, pinLevel, lcdGrid, lcdScreen, lcdClears, lcdPrints,
          serialBaud, serialLine, echoTime, distance, holds, log,
          pT, pCM, pFoot>>

loopVars == <<pc, pinModes, pinLevel, lcdGrid, lcdScreen, lcdClears, lcdPrints,
              serialBaud, serialLine, echoTime, distance, holds, log>>

pureVars == <<pT, pCM, pFoot>>

(***************************************************************************)
(* Program constants                                                       *)
(***************************************************************************)
LED == 3
TRIG == 9
ECHO == 8
SPEED_OF_SOUND == 343
limit == 50
LcdCols == 16
LcdRows == 1
BaudRate == 9600
PulseInTimeout == 1000000
TrigDelay == 10
LoopDelay == 200
DecimalPlaces == 2

Pins == {LED, TRIG, ECHO}

(***************************************************************************)
(* Bounds of the model                                                     *)
(***************************************************************************)
EchoScan == 2
MaxPureT == 120

(***************************************************************************)
(* Exact fractions                                                         *)
(***************************************************************************)
\* Euclid's algorithm, as a function so that its arguments are values
GCD[a \in Int, b \in Int] == IF b = 0 THEN a ELSE GCD[b, a % b]

\* floating-point values of the sketch: fractions, kept in lowest terms
Rat == [num : Int, den : Int]

Frac[n \in Int, d \in Int] ==
  LET g == GCD[n, d] IN [num |-> n \div g, den |-> d \div g]

RMul[a \in Rat, b \in Rat] ==
  LET g1 == GCD[a.num, b.den]
      g2 == GCD[b.num, a.den]
  IN  Frac[(a.num \div g1) * (b.num \div g2), (a.den \div g2) * (b.den \div g1)]

RDiv[a \in Rat, b \in Rat] == RMul[a, [num |-> b.den, den |-> b.num]]

RAdd[a \in Rat, b \in Rat] ==
  LET l == (a.den \div GCD[a.den, b.den]) * b.den
  IN  Frac[a.num * (l \div a.den) + b.num * (l \div b.den), l]

RLess(a, b) == a.num * b.den < b.num * a.den

RInt(n) == [num |-> n, den |-> 1]

\* conversion of a non-negative floating-point value to unsigned long
ToUnsignedLong(a) == a.num \div a.den

NoValue == [num |-> 0, den |-> 0]

(***************************************************************************)
(* Conversion functions                                                    *)
(***************************************************************************)
calculateDistanceFoot_NoHalving(timeElapsed) ==
  RDiv[RMul[timeElapsed, RMul[RInt(SPEED_OF_SOUND), Frac[1, 10000]]],
       Frac[3048, 100]]

calculateDistanceFoot(timeElapsed) ==
  RDiv[RDiv[RMul[timeElapsed, RMul[RInt(SPEED_OF_SOUND), Frac[1, 10000]]],
            Frac[3048, 100]],
       RInt(2)]

calculateDistanceCM_NoHalving(timeElapsed) ==
  RMul[timeElapsed, RMul[RInt(SPEED_OF_SOUND), Frac[1, 10000]]]

calculateDistanceCM(timeElapsed) ==
  RDiv[RMul[timeElapsed, RMul[RInt(SPEED_OF_SOUND), Frac[1, 10000]]],
       RInt(2)]

(***************************************************************************)
(* Decimal rendering                                                       *)
(***************************************************************************)
Digit(d) ==
  CASE d = 0 -> "0" [] d = 1 -> "1" [] d = 2 -> "2" [] d = 3 -> "3"
    [] d = 4 -> "4" [] d = 5 -> "5" [] d = 6 -> "6" [] d = 7 -> "7"
    [] d = 8 -> "8" [] d = 9 -> "9"

RECURSIVE DecStr(_)
DecStr(n) == IF n < 10 THEN Digit(n) ELSE DecStr(n \div 10) \o Digit(n % 10)

RECURSIVE Pow10(_)
Pow10(k) == IF k = 0 THEN 1 ELSE 10 * Pow10(k - 1)

RECURSIVE ZeroPad(_, _)
ZeroPad(s, w) == IF Len(s) >= w THEN s ELSE ZeroPad("0" \o s, w)

RECURSIVE SpacePad(_, _)
SpacePad(s, w) == IF Len(s) >= w THEN s ELSE SpacePad(" " \o s, w)

\* String(double): dtostrf(value, decimalPlaces + 2, decimalPlaces, buf);
\* the value is rounded to decimalPlaces digits and right-aligned in the width.
StringOfDouble(value) ==
  LET scaled == ToUnsignedLong(RAdd[RMul[value, RInt(Pow10(DecimalPlaces))],
                                    Frac[1, 2]])
      ip     == scaled \div Pow10(DecimalPlaces)
      fp     == scaled % Pow10(DecimalPlaces)
  IN  SpacePad(DecStr(ip) \o "." \o ZeroPad(DecStr(fp), DecimalPlaces),
               DecimalPlaces + 2)

RECURSIVE FracDigits(_, _)
FracDigits(remainder, digits) ==
  IF digits = 0 THEN ""
  ELSE LET r       == RMul[remainder, RInt(10)]
           toPrint == ToUnsignedLong(r)
       IN  Digit(toPrint) \o FracDigits(RAdd[r, RInt(0 - toPrint)], digits - 1)

\* Serial.println(double): Print::printFloat(number, 2); half a unit of the
\* last digit is added, then the integer part and the digits are cut off.
printFloat(number) ==
  LET rounded  == RAdd[number, Frac[1, 2 * Pow10(DecimalPlaces)]]
      int_part == ToUnsignedLong(rounded)
  IN  DecStr(int_part) \o "." \o
      FracDigits(RAdd[rounded, RInt(0 - int_part)], DecimalPlaces)

lcdDisplayMessage_LongSuffix(text) == text \o " centimetres"

\* the text lcdDisplayMessage hands to lcd.print
lcdDisplayMessage(text) == text \o "cm"

(***************************************************************************)
(* Inputs                                                                  *)
(***************************************************************************)
\* values pulseIn(ECHO, HIGH) can return: 0 on timeout, else a pulse width
EchoSamples == {58, 100, 583, 1000, 2915, 2916, 5831, 6000}

EchoTimes == (0 .. EchoScan) \cup EchoSamples
               \cup ((PulseInTimeout - EchoScan) .. PulseInTimeout)

Ev(op, n, txt) == [op |-> op, n |-> n, txt |-> txt]

(***************************************************************************)
(* Initial state: globals constructed, setup() not yet entered.            *)
(* The lines are in their reset state (inputs, low); the LiquidCrystal     *)
(* constructor has initialised and cleared the display.                    *)
(***************************************************************************)
Init ==
  /\ pc = "setup_lcdBegin"
  /\ pinModes = [p \in Pins |-> "INPUT"]
  /\ pinLevel = [p \in {LED, TRIG} |-> "LOW"]
  /\ lcdGrid = <<LcdCols, LcdRows>>
  /\ lcdScreen = <<>>
  /\ lcdClears = 0
  /\ lcdPrints = FALSE
  /\ serialBaud = 0
  /\ serialLine = ""
  /\ echoTime = 0
  /\ distance = RInt(0)
  /\ holds = <<>>
  /\ log = <<>>
  /\ pT = 0
  /\ pCM = NoValue
  /\ pFoot = NoValue

(***************************************************************************)
(* setup()                                                                 *)
(***************************************************************************)
setup_lcdBegin ==
  /\ pc = "setup_lcdBegin"
  /\ lcdGrid' = <<LcdCols, LcdRows>>
  /\ lcdScreen' = <<>>
  /\ pc' = "setup_pinModeTrig"
  /\ UNCHANGED <<pinModes, pinLevel, lcdClears, lcdPrints, serialBaud,
                 serialLine, echoTime, distance, holds, log, pureVars>>

setup_pinModeTrig ==
  /\ pc = "setup_pinModeTrig"
  /\ pinModes' = [pinModes EXCEPT ![TRIG] = "OUTPUT"]
  /\ pc' = "setup_pinModeEcho"
  /\ UNCHANGED <<pinLevel, lcdGrid, lcdScreen, lcdClears, lcdPrints, serialBaud,
                 serialLine, echoTime, distance, holds, log, pureVars>>

setup_pinModeEcho ==
  /\ pc = "setup_pinModeEcho"
  /\ pinModes' = [pinModes EXCEPT ![ECHO] = "INPUT"]
  /\ pc' = "setup_serialBegin"
  /\ UNCHANGED <<pinLevel, lcdGrid, lcdScreen, lcdClears, lcdPrints, serialBaud,
                 serialLine, echoTime, distance, holds, log, pureVars>>

setup_serialBegin ==
  /\ pc = "setup_serialBegin"
  /\ serialBaud' = BaudRate
  /\ pc' = "trig_low1"
  /\ UNCHANGED <<pinModes, pinLevel, lcdGrid, lcdScreen, lcdClears, lcdPrints,
                 serialLine, echoTime, distance, holds, log, pureVars>>

(***************************************************************************)
(* sendTrigPulse()                                                         *)
(***************************************************************************)
\* first statement of loop(): the record of the previous cycle is dropped
sendTrigPulse_low1 ==
  /\ pc = "trig_low1"
  /\ pinLevel' = [pinLevel EXCEPT ![TRIG] = "LOW"]
  /\ log' = <<Ev("TRIG_LOW", 0, "")>>
  /\ pc' = "trig_delay1"
  /\ UNCHANGED <<pinModes, lcdGrid, lcdScreen, lcdClears, lcdPrints, serialBaud,
                 serialLine, echoTime, distance, holds, pureVars>>

sendTrigPulse_delay1 ==
  /\ pc = "trig_delay1"
  /\ log' = Append(log, Ev("delay", TrigDelay, ""))
  /\ pc' = "trig_high"
  /\ UNCHANGED <<pinModes, pinLevel, lcdGrid, lcdScreen, lcdClears, lcdPrints,
                 serialBaud, serialLine, echoTime, distance, holds, pureVars>>

sendTrigPulse_high ==
  /\ pc = "trig_high"
  /\ pinLevel' = [pinLevel EXCEPT ![TRIG] = "HIGH"]
  /\ log' = Append(log, Ev("TRIG_HIGH", 0, ""))
  /\ pc' = "trig_delay2"
  /\ UNCHANGED <<pinModes, lcdGrid, lcdScreen, lcdClears, lcdPrints, serialBaud,
                 serialLine, echoTime, distance, holds, pureVars>>

sendTrigPulse_delay2 ==
  /\ pc = "trig_delay2"
  /\ log' = Append(log, Ev("delay", TrigDelay, ""))
  /\ pc' = "trig_low2"
  /\ UNCHANGED <<pinModes, pinLevel, lcdGrid, lcdScreen, lcdClears, lcdPrints,
                 serialBaud, serialLine, echoTime, distance, holds, pureVars>>

sendTrigPulse_low2 ==
  /\ pc = "trig_low2"
  /\ pinLevel' = [pinLevel EXCEPT ![TRIG] = "LOW"]
  /\ log' = Append(log, Ev("TRIG_LOW", 0, ""))
  /\ pc' = "pulseIn"
  /\ UNCHANGED <<pinModes, lcdGrid, lcdScreen, lcdClears, lcdPrints, serialBaud,
                 serialLine, echoTime, distance, holds, pureVars>>

(***************************************************************************)
(* getEchoTime() and getDistance()                                         *)
(***************************************************************************)
getEchoTime ==
  /\ pc = "pulseIn"
  /\ \E t \in EchoTimes :
       /\ echoTime' = t
       /\ log' = Append(log, Ev("pulseIn", t, ""))
  /\ pc' = "calcCM"
  /\ UNCHANGED <<pinModes, pinLevel, lcdGrid, lcdScreen, lcdClears, lcdPrints,
                 serialBaud, serialLine, distance, holds, pureVars>>

getDistance_return ==
  /\ pc = "calcCM"
  /\ distance' = calculateDistanceCM(RInt(echoTime))
  /\ log' = Append(log, Ev("calculateDistanceCM", 0, ""))
  /\ pc' = "lcdPrint"
  /\ UNCHANGED <<pinModes, pinLevel, lcdGrid, lcdScreen, lcdClears, lcdPrints,
                 serialBaud, serialLine, echoTime, holds, pureVars>>

(***************************************************************************)
(* loop(): display, telemetry, threshold                                   *)
(***************************************************************************)
loop_lcdDisplayMessage_SkipsTelemetry ==
  /\ pc = "lcdPrint"
  /\ lcdScreen' = Append(lcdScreen, lcdDisplayMessage(StringOfDouble(distance)))
  /\ lcdClears' = 0
  /\ lcdPrints' = TRUE
  /\ log' = Append(log, Ev("lcd.print", 0,
                           lcdDisplayMessage(StringOfDouble(distance))))
  /\ pc' = "if"
  /\ UNCHANGED <<pinModes, pinLevel, lcdGrid, serialBaud, serialLine, echoTime,
                 distance, holds, pureVars>>

loop_lcdDisplayMessage ==
  /\ pc = "lcdPrint"
  /\ lcdScreen' = Append(lcdScreen, lcdDisplayMessage(StringOfDouble(distance)))
  /\ lcdClears' = 0
  /\ lcdPrints' = TRUE
  /\ log' = Append(log, Ev("lcd.print", 0,
                           lcdDisplayMessage(StringOfDouble(distance))))
  /\ pc' = "println"
  /\ UNCHANGED <<pinModes, pinLevel, lcdGrid, serialBaud, serialLine, echoTime,
                 distance, holds, pureVars>>

loop_println ==
  /\ pc = "println"
  /\ serialLine' = printFloat(distance)
  /\ log' = Append(log, Ev("Serial.println", 0, printFloat(distance)))
  /\ pc' = "if"
  /\ UNCHANGED <<pinModes, pinLevel, lcdGrid, lcdScreen, lcdClears, lcdPrints,
                 serialBaud, echoTime, distance, holds, pureVars>>

WithinLimit_Swapped(d) == RLess(RInt(limit), d)

WithinLimit_Positive(d) == RLess(RInt(0), d) /\ RLess(d, RInt(limit))

\* distance < limit, the int limit converted to double
WithinLimit(d) == RLess(d, RInt(limit))

loop_if ==
  /\ pc = "if"
  /\ pc' = IF WithinLimit(distance) THEN "blink_low1" ELSE "delay200"
  /\ UNCHANGED <<pinModes, pinLevel, lcdGrid, lcdScreen, lcdClears, lcdPrints,
                 serialBaud, serialLine, echoTime, distance, holds, log,
                 pureVars>>

(***************************************************************************)
(* blinkLED(distance)                                                      *)
(***************************************************************************)
DelayArg_RoundUp(d) == (d.num + d.den - 1) \div d.den

\* delay(unsigned long ms) called with a double argument
DelayArg(d) == ToUnsignedLong(d)

blinkLED_low1 ==
  /\ pc = "blink_low1"
  /\ pinLevel' = [pinLevel EXCEPT ![LED] = "LOW"]
  /\ holds' = <<>>
  /\ log' = Append(log, Ev("LED_LOW", 0, ""))
  /\ pc' = "blink_high"
  /\ UNCHANGED <<pinModes, lcdGrid, lcdScreen, lcdClears, lcdPrints, serialBaud,
                 serialLine, echoTime, distance, pureVars>>

blinkLED_high ==
  /\ pc = "blink_high"
  /\ pinLevel' = [pinLevel EXCEPT ![LED] = "HIGH"]
  /\ log' = Append(log, Ev("LED_HIGH", 0, ""))
  /\ pc' = "blink_delay1"
  /\ UNCHANGED <<pinModes, lcdGrid, lcdScreen, lcdClears, lcdPrints, serialBaud,
                 serialLine, echoTime, distance, holds, pureVars>>

blinkLED_delay1 ==
  /\ pc = "blink_delay1"
  /\ holds' = Append(holds, DelayArg(distance))
  /\ log' = Append(log, Ev("delay", DelayArg(distance), ""))
  /\ pc' = "blink_low2"
  /\ UNCHANGED <<pinModes, pinLevel, lcdGrid, lcdScreen, lcdClears, lcdPrints,
                 serialBaud, serialLine, echoTime, distance, pureVars>>

blinkLED_low2_StaysHigh ==
  /\ pc = "blink_low2"
  /\ log' = Append(log, Ev("LED_LOW", 0, ""))
  /\ pc' = "blink_delay2"
  /\ UNCHANGED <<pinModes, pinLevel, lcdGrid, lcdScreen, lcdClears, lcdPrints,
                 serialBaud, serialLine, echoTime, distance, holds, pureVars>>

blinkLED_low2 ==
  /\ pc = "blink_low2"
  /\ pinLevel' = [pinLevel EXCEPT ![LED] = "LOW"]
  /\ log' = Append(log, Ev("LED_LOW", 0, ""))
  /\ pc' = "blink_delay2"
  /\ UNCHANGED <<pinModes, lcdGrid, lcdScreen, lcdClears, lcdPrints, serialBaud,
                 serialLine, echoTime, distance, holds, pureVars>>

blinkLED_delay2 ==
  /\ pc = "blink_delay2"
  /\ holds' = Append(holds, DelayArg(distance))
  /\ log' = Append(log, Ev("delay", DelayArg(distance), ""))
  /\ pc' = "delay200"
  /\ UNCHANGED <<pinModes, pinLevel, lcdGrid, lcdScreen, lcdClears, lcdPrints,
                 serialBaud, serialLine, echoTime, distance, pureVars>>

(***************************************************************************)
(* loop(): inter-cycle delay and clear                                     *)
(***************************************************************************)
loop_delay200_Hangs ==
  /\ pc = "delay200"
  /\ pc' = "delay200"
  /\ UNCHANGED <<pinModes, pinLevel, lcdGrid, lcdScreen, lcdClears, lcdPrints,
                 serialBaud, serialLine, echoTime, distance, holds, log,
                 pureVars>>

loop_delay200 ==
  /\ pc = "delay200"
  /\ log' = Append(log, Ev("delay", LoopDelay, ""))
  /\ pc' = "lcdClear"
  /\ UNCHANGED <<pinModes, pinLevel, lcdGrid, lcdScreen, lcdClears, lcdPrints,
                 serialBaud, serialLine, echoTime, distance, holds, pureVars>>

loop_lcdClear_Skipped ==
  /\ pc = "lcdClear"
  /\ log' = Append(log, Ev("lcd.clear", 0, ""))
  /\ pc' = "trig_low1"
  /\ UNCHANGED <<pinModes, pinLevel, lcdGrid, lcdScreen, lcdClears, lcdPrints,
                 serialBaud, serialLine, echoTime, distance, holds, pureVars>>

loop_lcdClear ==
  /\ pc = "lcdClear"
  /\ lcdScreen' = <<>>
  /\ lcdClears' = lcdClears + 1
  /\ log' = Append(log, Ev("lcd.clear", 0, ""))
  /\ pc' = "trig_low1"
  /\ UNCHANGED <<pinModes, pinLevel, lcdGrid, lcdPrints, serialBaud, serialLine,
                 echoTime, distance, holds, pureVars>>

Next ==
  \/ setup_lcdBegin
  \/ setup_pinModeTrig
  \/ setup_pinModeEcho
  \/ setup_serialBegin
  \/ sendTrigPulse_low1
  \/ sendTrigPulse_delay1
  \/ sendTrigPulse_high
  \/ sendTrigPulse_delay2
  \/ sendTrigPulse_low2
  \/ getEchoTime
  \/ getDistance_return
  \/ loop_lcdDisplayMessage
  \/ loop_println
  \/ loop_if
  \/ blinkLED_low1
  \/ blinkLED_high
  \/ blinkLED_delay1
  \/ blinkLED_low2
  \/ blinkLED_delay2
  \/ loop_delay200
  \/ loop_lcdClear

Spec == Init /\ [][Next]_vars

\* the processor always executes the next statement; pulseIn returns within
\* its timeout and every delay elapses
LiveSpec == Init /\ [][Next]_vars /\ WF_vars(Next)

(***************************************************************************)
(* The conversion functions on their own                                   *)
(***************************************************************************)
PureInit ==
  /\ pT \in 0 .. MaxPureT
  /\ pCM = NoValue
  /\ pFoot = NoValue
  /\ pc = "setup_lcdBegin"
  /\ pinModes = [p \in Pins |-> "INPUT"]
  /\ pinLevel = [p \in {LED, TRIG} |-> "LOW"]
  /\ lcdGrid = <<LcdCols, LcdRows>>
  /\ lcdScreen = <<>>
  /\ lcdClears = 0
  /\ lcdPrints = FALSE
  /\ serialBaud = 0
  /\ serialLine = ""
  /\ echoTime = 0
  /\ distance = RInt(0)
  /\ holds = <<>>
  /\ log = <<>>

ApplyCM ==
  /\ pCM = NoValue
  /\ pCM' = calculateDistanceCM(RInt(pT))
  /\ UNCHANGED <<pT, pFoot, loopVars>>

ApplyFoot ==
  /\ pFoot = NoValue
  /\ pFoot' = calculateDistanceFoot(RInt(pT))
  /\ UNCHANGED <<pT, pCM, loopVars>>

PureNext == ApplyCM \/ ApplyFoot

PureSpec == PureInit /\ [][PureNext]_vars

(***************************************************************************)
(* Vocabulary of the properties                                            *)
(***************************************************************************)
LogOps == [i \in 1 .. Len(log) |-> log[i].op]

IsPrefix(s, t) == Len(s) <= Len(t) /\ \A i \in 1 .. Len(s) : s[i] = t[i]

CycleHead == <<"TRIG_LOW", "delay", "TRIG_HIGH", "delay", "TRIG_LOW", "pulseIn",
               "calculateDistanceCM", "lcd.print", "Serial.println">>

BlinkOps == <<"LED_LOW", "LED_HIGH", "delay", "LED_LOW", "delay">>

CycleTail == <<"delay", "lcd.clear">>

SetupPcs == {"setup_lcdBegin", "setup_pinModeTrig", "setup_pinModeEcho",
             "setup_serialBegin"}

BlinkPcs == {"blink_low1", "blink_high", "blink_delay1", "blink_low2",
             "blink_delay2"}

\* loop() has returned: the cycle recorded in log is complete
CycleDone == pc = "trig_low1" /\ log # <<>>

\* blinkLED has been entered in the recorded cycle
Blinked == \E i \in 1 .. Len(log) : log[i].op = "LED_LOW"

\* blinkLED has returned in the recorded cycle
BlinkReturned == Blinked /\ (pc \in {"delay200", "lcdClear"} \/ CycleDone)

\* the echo duration measured in the recorded cycle
Measured == Len(log) >= 6

MeasuredEcho == log[6].n

\* T * 0.0343 / 2 < 50, in integers
Below50(t) == t * 343 < 50 * 20000

(***************************************************************************)
(* C1: in every cycle blinkLED is invoked if and only if the centimetre    *)
(* distance of that cycle is strictly below 50.                            *)
(***************************************************************************)
C1_ThresholdIff ==
  /\ (pc \in {"delay200", "lcdClear"} \/ CycleDone)
       => (Blinked <=> Below50(MeasuredEcho))
  /\ pc \in BlinkPcs => Below50(echoTime)

C1_Witness == CycleDone /\ Blinked /\ MeasuredEcho = 2915

(***************************************************************************)
(* C2: every cycle performs trigger pulse, echo measurement, conversion,   *)
(* display write, telemetry line, optional blink, 200 ms delay and display *)
(* clear in that order, each once; the telemetry line carries the distance *)
(* shown on the display; a new cycle starts only after the clear.          *)
(***************************************************************************)
C2_FixedOrder ==
  /\ \/ IsPrefix(LogOps, CycleHead \o BlinkOps \o CycleTail)
     \/ IsPrefix(LogOps, CycleHead \o CycleTail)
  /\ CycleDone => \/ LogOps = CycleHead \o BlinkOps \o CycleTail
                  \/ LogOps = CycleHead \o CycleTail
  /\ (pc # "trig_low1" /\ log # <<>>) => log[Len(log)].op # "lcd.clear"
  /\ Len(log) >= 9 => log[8].txt = log[9].txt \o "cm"
  /\ Blinked => Below50(MeasuredEcho)
  /\ CycleDone => log[Len(log) - 1].n = 200

C2_Witness ==
  /\ CycleDone
  /\ LogOps = CycleHead \o BlinkOps \o CycleTail
  /\ log[9].txt = "17.15"

(***************************************************************************)
(* C3: a zero echo duration gives distance 0, shown and sent as 0.00, a    *)
(* blink with both holds of 0 ms, then the 200 ms delay and the clear.     *)
(***************************************************************************)
C3_ZeroEcho ==
  (Measured /\ MeasuredEcho = 0) =>
    /\ Len(log) >= 7 => distance = [num |-> 0, den |-> 1]
    /\ Len(log) >= 8 => log[8].txt = "0.00cm"
    /\ Len(log) >= 9 => log[9].txt = "0.00"
    /\ pc = "if" => serialLine = "0.00" /\ lcdScreen = <<"0.00cm">>
    /\ CycleDone =>
         /\ LogOps = CycleHead \o BlinkOps \o CycleTail
         /\ log[12].n = 0
         /\ log[14].n = 0
         /\ log[15].n = 200
         /\ lcdScreen = <<>>

C3_Witness == CycleDone /\ MeasuredEcho = 0 /\ Blinked /\ holds = <<0, 0>>

(***************************************************************************)
(* C4: calculateDistanceCM(T) = T * 0.0343 / 2 = T * 343 / 20000 and       *)
(* calculateDistanceFoot(T) = T * 0.0343 / 30.48 / 2 = T * 343 / 609600,   *)
(* both 0 at T = 0.                                                        *)
(***************************************************************************)
C4_Formulas ==
  /\ pCM # NoValue =>
       /\ pCM.den > 0
       /\ GCD[pCM.num, pCM.den] = 1
       /\ pCM.num * 20000 = pT * 343 * pCM.den
  /\ pFoot # NoValue => pFoot = Frac[pT * 343, 609600]
  /\ (pT = 0 /\ pCM # NoValue) => pCM.num = 0
  /\ (pT = 0 /\ pFoot # NoValue) => pFoot.num = 0

C4_Witness ==
  /\ pT = 100
  /\ pCM = [num |-> 343, den |-> 200]
  /\ pFoot = [num |-> 343, den |-> 6096]

CycleStarted == pc = "trig_delay1"

CycleCleared == CycleDone /\ log[Len(log)].op = "lcd.clear"

C6_NeverStuck == (CycleStarted ~> CycleCleared) /\ ([]<>CycleStarted)

C6_Witness == CycleCleared /\ MeasuredEcho = PulseInTimeout

(***************************************************************************)
(* C7: once setup() has returned the trigger line is an output, the echo   *)
(* line an input and the indicator line an output, so every write to the   *)
(* indicator line is made to a line configured as output.                  *)
(***************************************************************************)
C7_LinesConfigured ==
  pc \notin SetupPcs =>
    /\ pinModes[TRIG] = "OUTPUT"
    /\ pinModes[ECHO] = "INPUT"
    /\ pinModes[LED] = "OUTPUT"

(***************************************************************************)
(* C8: the indicator goes low, high, low within one blink and is low when  *)
(* blinkLED returns; it is high only during the first hold of a blink.     *)
(***************************************************************************)
LedOps == SelectSeq(LogOps, LAMBDA o : o \in {"LED_LOW", "LED_HIGH"})

C8_BlinkCompletes ==
  /\ pinLevel[LED] = "HIGH" => pc \in {"blink_delay1", "blink_low2"}
  /\ IsPrefix(LedOps, <<"LED_LOW", "LED_HIGH", "LED_LOW">>)
  /\ BlinkReturned =>
       /\ LedOps = <<"LED_LOW", "LED_HIGH", "LED_LOW">>
       /\ pinLevel[LED] = "LOW"

C8_Witness == BlinkReturned /\ pc = "lcdClear" /\ pinLevel[LED] = "LOW"

(***************************************************************************)
(* C9: every display write is made to an empty display, exactly one clear  *)
(* lies between two consecutive writes, and the display never holds more   *)
(* than one distance text.                                                 *)
(***************************************************************************)
C9_NoOverlap ==
  /\ Len(lcdScreen) <= 1
  /\ pc = "lcdPrint" =>
       /\ lcdScreen = <<>>
       /\ lcdPrints => lcdClears = 1

C9_Witness == pc = "lcdPrint" /\ lcdPrints /\ lcdClears = 1

(***************************************************************************)
(* C10: the text written to the display (distance with two decimals and    *)
(* the suffix cm) never exceeds the 16 columns of the display.             *)
(***************************************************************************)
C10_FitsColumns ==
  \A i \in 1 .. Len(lcdScreen) : Len(lcdScreen[i]) <= lcdGrid[1]

C10_Witness == lcdScreen = <<"17150.00cm">> /\ echoTime = PulseInTimeout

====
